---- MODULE Spec2Model ----
(***************************************************************************)
(* Model of the page scripts of brownthesr.github.io:                      *)
(*   - the startup gate (window.canva_scriptExecutor, a                    *)
(*     DOMContentLoadedHandler / DOMContentLoadedManager),                 *)
(*   - the debounced resize handler and the menu callback that uses it,    *)
(*   - the viewport-triggered animation coordinator (observeAndAnimate,    *)
(*     startAnimationForElement, loadElementResources and the image,       *)
(*     video and font waits).                                              *)
(* One action is one task of the browser's event loop (a script, an event  *)
(* handler, an observer notification, an animation frame) together with    *)
(* the microtask checkpoint that follows it.                               *)
(***************************************************************************)
EXTENDS Integers, Sequences, FiniteSets, TLC

(***************************************************************************)
(* Bounds of the model.                                                    *)
(***************************************************************************)
\* other scripts of the page that register through the same global handle
MaxOtherScripts == 1
\* entries the observer may hold queued before one notification is delivered
MaxEntries == 3
\* elements another script may attach to the page after it was loaded
MaxLate == 1
\* events media elements may fire beyond the first of each
MaxRepeats == 2
\* the delay given to debounce, in ticks of the clock
Delay == 2
\* the last tick of the clock, and the calls of the debounced function
MaxTime == 5
MaxCalls == 3

(***************************************************************************)
(* Program constants.                                                      *)
(***************************************************************************)
\* Number.MAX_VALUE, the default priority: larger than every other priority
MAX_VALUE == 9
\* HTMLMediaElement.HAVE_CURRENT_DATA, the readiness level loadVideo tests
HAVE_CURRENT_DATA == 2

\* priorities a caller of the startup gate may pass
Priorities == {1, 2, MAX_VALUE}
OtherScripts == 1..MaxOtherScripts

(***************************************************************************)
(* The documents.  A page is a forest of elements; the model knows three   *)
(* pages.  Every element is named once, so the trees of the pages are      *)
(* disjoint and one table describes them all.                              *)
(*                                                                         *)
(*   "media":   A  div.animation_container.animated                        *)
(*                 i1 img, v1 video, s1 span (with text)                   *)
(*              B  div.animation_container.animated                        *)
(*                 i2 img                                                  *)
(*   "nested":  C  div.animation_container                                 *)
(*                 D  div.animated            (no text, no media)          *)
(*              E  div.animation_container    (no text, no child)          *)
(*              T  div.animation_container.animated, text of its own,      *)
(*                 no element below it                                     *)
(*   "empty":   no element matches .animation_container                    *)
(*                                                                         *)
(*   "single":  S  div.animation_container.animated                        *)
(*                 i3 img                                                  *)
(*   "chain":   P  div.animation_container    (no text)                    *)
(*                 M  div                                                  *)
(*                    Q  div.animated                                      *)
(*                       R  div.animated                                   *)
(*                    Y  div.animated                                      *)
(*                 X  div.animated                                         *)
(*              F  div.animation_container, text of its own, no element    *)
(*                 below it                                                *)
(*                                                                         *)
(* Another script may attach further elements under S after the page was   *)
(* loaded: i4 img, v2 video, s2 span (with text), in this order after i3.  *)
(***************************************************************************)
VARIABLE attached         \* the late elements that are attached to the page

Pages == {"media", "nested", "empty", "single", "chain"}
null == "null"

Images == {"i1", "i2", "i3", "i4"}
Videos == {"v1", "v2"}
Spans == {"s1", "s2"}
LateElements == {"i4", "v2", "s2"}
Divs == {"A", "B", "C", "D", "E", "T", "S"}
ChainDivs == {"P", "M", "Q", "R", "X", "Y", "F"}
Media == Images \cup Videos
Elements == Divs \cup ChainDivs \cup Media \cup Spans

\* the element children of an element, in document order
children(e) ==
    CASE e = "A" -> <<"i1", "v1", "s1">>
      [] e = "B" -> <<"i2">>
      [] e = "S" -> <<"i3">>
                    \o (IF "i4" \in attached THEN <<"i4">> ELSE <<>>)
                    \o (IF "v2" \in attached THEN <<"v2">> ELSE <<>>)
                    \o (IF "s2" \in attached THEN <<"s2">> ELSE <<>>)
      [] e = "C" -> <<"D">>
      [] e = "P" -> <<"M", "X">>
      [] e = "M" -> <<"Q", "Y">>
      [] e = "Q" -> <<"R">>
      [] OTHER -> <<>>

tagName(e) ==
    CASE e \in Images -> "img"
      [] e \in Videos -> "video"
      [] e \in Spans -> "span"
      [] OTHER -> "div"

classList(e) ==
    CASE e \in {"A", "B", "T", "S"} -> {"animation_container", "animated"}
      [] e \in {"C", "E", "P", "F"} -> {"animation_container"}
      [] e \in {"D", "Q", "R", "X", "Y"} -> {"animated"}
      [] OTHER -> {}

\* whether the element has a text node of its own that is not blank
ownText(e) == e \in {"s1", "s2", "T", "F"}

\* the top-level elements of a page's body
pageRoots(p) ==
    CASE p = "media" -> {"A", "B"}
      [] p = "nested" -> {"C", "E", "T"}
      [] p = "single" -> {"S"}
      [] p = "chain" -> {"P", "F"}
      [] OTHER -> {}

\* whether the page holds the menu elements (horizontalMenu and the rest)
pageHasMenu(p) == p = "media"

Range(s) == {s[i] : i \in 1..Len(s)}

RECURSIVE descendants(_)
descendants(e) ==
    UNION {{c} \cup descendants(c) : c \in Range(children(e))}

inDocument(p) == UNION {{r} \cup descendants(r) : r \in pageRoots(p)}

firstElementChild(e) == IF children(e) = <<>> THEN null ELSE Head(children(e))

\* mutant: the collection holds the elements of the page as it was loaded
getElementsByTagName_static(e, tag) ==
    {d \in descendants(e) \ LateElements : tagName(d) = tag}

getElementsByTagName(e, tag) == {d \in descendants(e) : tagName(d) = tag}

querySelectorAll(p, class) == {e \in inDocument(p) : class \in classList(e)}


(***************************************************************************)
(* State.                                                                  *)
(***************************************************************************)
VARIABLES
    page,                 \* the document this run loads
    readyState,           \* document.readyState
    domContentLoadedFired,\* whether the DOMContentLoaded event was dispatched
    scriptsRun,           \* the scripts that have executed
    canva_scriptExecutor, \* window.canva_scriptExecutor: the class of the object, or "none"
    constructed,          \* how many startup coordinators were constructed
    callbacks,            \* the coordinator's callbacks array
    executed,             \* the startup and resize callbacks invoked so far, in order
    registrations,        \* the registration calls so far, each with document.readyState at the call
    canva_debounceResize, \* whether window.canva_debounceResize holds a ResizeHandler
    resizeCallbacks,      \* the ResizeHandler's resizeCallbacks array
    observers,            \* how many IntersectionObservers were created
    observationTargets,   \* the elements the observer observes
    previousIsIntersecting, \* per target: what the observer last reported
    queuedEntries,        \* the observer's entries not yet delivered
    complete,             \* image.complete
    loadingEager,         \* the images whose loading attribute was set to "eager"
    videoReadyState,      \* video.readyState
    poster,               \* whether the video declares a poster
    videoError,           \* whether video.error is set
    fontFace,             \* per span: the face of document.fonts its font key names, or "none"
    faceLoaded,           \* per face: the state of its loaded promise
    fontsReady,           \* the state of document.fonts.ready
    invocations,          \* the calls of startAnimationForElement that await a join
    listeners,            \* per media element: the invocations whose listeners it holds
    rafQueue,             \* the callbacks given to requestAnimationFrame, not yet run
    animationPlayState,   \* element.style.animationPlayState
    dispatched,           \* per element: how often the observer handed it to the dispatcher
    flips,                \* per element: how often its state changed to "running"
    outOfView,            \* the containers that left the viewport while their join was pending
    repeats,              \* the further events media elements fired after their first, in order
    now,                  \* the time, in ticks
    timeoutId,            \* the debounced function's timeoutId (0: undefined)
    timers,               \* the pending timers of setTimeout
    calls,                \* the calls of the debounced function so far
    runs                  \* the runs of the wrapped callback so far

gateVars == <<readyState, domContentLoadedFired, scriptsRun, canva_scriptExecutor,
              constructed, callbacks, executed, registrations,
              canva_debounceResize, resizeCallbacks, observers,
              observationTargets>>

\* the callbacks of this repository, and those of the other scripts
menuCallback == <<"menu", 0>>
adjustMenuDisplay == <<"adjustMenuDisplay", 0>>
observeCallback == <<"observeAndAnimate", 0>>
otherCallback(k) == <<"other", k>>

(***************************************************************************)
(* The startup gate.  The operators below thread a record g of the fields  *)
(* a callback may change through the synchronous call chain.               *)
(***************************************************************************)
G == [executor |-> canva_scriptExecutor,
      constructed |-> constructed,
      callbacks |-> callbacks,
      executed |-> executed,
      registrations |-> registrations,
      debounceResize |-> canva_debounceResize,
      resizeCallbacks |-> resizeCallbacks,
      observers |-> observers,
      targets |-> observationTargets]

Commit(g) ==
    /\ canva_scriptExecutor' = g.executor
    /\ constructed' = g.constructed
    /\ callbacks' = g.callbacks
    /\ executed' = g.executed
    /\ registrations' = g.registrations
    /\ canva_debounceResize' = g.debounceResize
    /\ resizeCallbacks' = g.resizeCallbacks
    /\ observers' = g.observers
    /\ observationTargets' = g.targets

\* the comparator (a, b) => a.priority - b.priority
comparePriority(a, b) == a.priority - b.priority

\* Array.prototype.sort is stable: an element goes after every element that
\* does not compare greater than it
RECURSIVE insertByPriority(_, _)
insertByPriority(x, s) ==
    IF s = <<>> THEN <<x>>
    ELSE IF comparePriority(Head(s), x) <= 0
         THEN <<Head(s)>> \o insertByPriority(x, Tail(s))
         ELSE <<x>> \o s

\* mutant: the callbacks are run in the order they were registered in
sortByPriority_unsorted(s) == s

RECURSIVE sortByPriority(_)
sortByPriority(s) ==
    IF s = <<>> THEN <<>>
    ELSE insertByPriority(s[Len(s)], sortByPriority(SubSeq(s, 1, Len(s) - 1)))

\* the same for resizeCallbacks, ordered by options.priority
RECURSIVE insertByOptionsPriority(_, _)
insertByOptionsPriority(x, s) ==
    IF s = <<>> THEN <<x>>
    ELSE IF Head(s).options.priority - x.options.priority <= 0
         THEN <<Head(s)>> \o insertByOptionsPriority(x, Tail(s))
         ELSE <<x>> \o s

RECURSIVE sortByOptionsPriority(_)
sortByOptionsPriority(s) ==
    IF s = <<>> THEN <<>>
    ELSE insertByOptionsPriority(s[Len(s)],
                                 sortByOptionsPriority(SubSeq(s, 1, Len(s) - 1)))

RECURSIVE call(_, _)

\* mutant: the callback is queued whatever document.readyState is
Handler_runOnLoad_alwaysQueued(callbackWithPriority, g) ==
    [g EXCEPT !.callbacks = Append(@, callbackWithPriority)]

\* DOMContentLoadedHandler.runOnLoad
Handler_runOnLoad(callbackWithPriority, g) ==
    IF readyState = "loading"
    THEN [g EXCEPT !.callbacks = Append(@, callbackWithPriority)]
    ELSE call(callbackWithPriority.callback, g)

\* DOMContentLoadedManager.runOnLoad
Manager_runOnLoad(callbackObject, g) ==
    IF readyState = "loading"
    THEN [g EXCEPT !.callbacks = Append(@, callbackObject)]
    ELSE call(callbackObject.callback, g)

\* window.canva_scriptExecutor.runOnLoad(...): the method of the object's
\* class; the call is noted in registrations
runOnLoad(callbackObject, g) ==
    LET g1 == [g EXCEPT !.registrations =
                   Append(@, [callback |-> callbackObject.callback,
                              priority |-> callbackObject.priority,
                              readyState |-> readyState])]
    IN IF g.executor = "DOMContentLoadedHandler"
       THEN Handler_runOnLoad(callbackObject, g1)
       ELSE Manager_runOnLoad(callbackObject, g1)

\* mutant: a new coordinator, with an empty queue, on every call
executeWhenReady_alwaysConstructs(callback, priority, g) ==
    LET g1 == [g EXCEPT !.executor = "DOMContentLoadedHandler",
                        !.constructed = @ + 1,
                        !.callbacks = <<>>]
    IN runOnLoad([callback |-> callback, priority |-> priority], g1)

executeWhenReady(callback, priority, g) ==
    LET g1 == IF g.executor = "none"
              THEN [g EXCEPT !.executor = "DOMContentLoadedHandler",
                             !.constructed = @ + 1]
              ELSE g
    IN runOnLoad([callback |-> callback, priority |-> priority], g1)

\* the registration IIFE of the animation script
registerAnimationSetup(registerCallback, priority, g) ==
    LET g1 == IF g.executor = "none"
              THEN [g EXCEPT !.executor = "DOMContentLoadedManager",
                             !.constructed = @ + 1]
              ELSE g
    IN runOnLoad([callback |-> registerCallback, priority |-> priority], g1)

\* ResizeHandler.runOnResize
runOnResize(callback, options, g) ==
    LET entry == [callback |-> callback, options |-> options,
                  executed |-> options.runOnLoad]
        g1 == [g EXCEPT !.resizeCallbacks =
                            sortByOptionsPriority(Append(@, entry))]
    IN IF options.runOnLoad
       THEN executeWhenReady(callback, options.priority, g1)
       ELSE g1

defaultResizeOptions ==
    [runOnLoad |-> FALSE, runOnWidthChange |-> TRUE,
     runOnHeightChange |-> FALSE, priority |-> MAX_VALUE]

\* { ...defaults, ...options }
mergeOptions(defaults, options) ==
    [k \in DOMAIN defaults |->
        IF k \in DOMAIN options THEN options[k] ELSE defaults[k]]

setupDebouncedResizeHandler(resizeCallback, options, g) ==
    runOnResize(resizeCallback, mergeOptions(defaultResizeOptions, options),
                [g EXCEPT !.debounceResize = TRUE])

\* the callback the menu script registers
menuMain(g) ==
    IF ~pageHasMenu(page) THEN g
    ELSE setupDebouncedResizeHandler(adjustMenuDisplay, [runOnLoad |-> TRUE], g)

\* mutant: the observer is created without the test for an empty selection
observeAndAnimate_noEarlyReturn(g) ==
    LET animationContainers == querySelectorAll(page, "animation_container")
    IN [g EXCEPT !.observers = @ + 1,
                 !.targets = @ \cup animationContainers]

observeAndAnimate(g) ==
    LET animationContainers == querySelectorAll(page, "animation_container")
    IN IF Cardinality(animationContainers) = 0 THEN g
       ELSE [g EXCEPT !.observers = @ + 1,
                      !.targets = @ \cup animationContainers]

\* callback(): the invocation of one registered callback
call(callback, g) ==
    LET g1 == [g EXCEPT !.executed = Append(@, callback)]
    IN CASE callback = menuCallback -> menuMain(g1)
         [] callback = observeCallback -> observeAndAnimate(g1)
         [] OTHER -> g1

RECURSIVE forEachCallback(_, _)
forEachCallback(s, g) ==
    IF s = <<>> THEN g
    ELSE forEachCallback(Tail(s), call(Head(s).callback, g))

\* DOMContentLoadedHandler.onDOMContentLoaded
Handler_onDOMContentLoaded(g) ==
    LET sorted == sortByPriority(g.callbacks)
    IN forEachCallback(sorted, [g EXCEPT !.callbacks = sorted])

\* DOMContentLoadedManager.onDOMContentLoaded
Manager_onDOMContentLoaded(g) ==
    LET sorted == sortByPriority(g.callbacks)
    IN forEachCallback(sorted, [g EXCEPT !.callbacks = sorted])


(***************************************************************************)
(* The animation coordinator.  The operators thread a record d of the      *)
(* fields one synchronous run of the observer's callback may change.       *)
(***************************************************************************)
animVars == <<previousIsIntersecting, queuedEntries, complete, loadingEager,
              videoReadyState, poster, videoError, fontFace, faceLoaded, fontsReady,
              invocations, listeners, rafQueue, animationPlayState, dispatched,
              flips>>

\* what the environment does to the page, and the debounced function
envVars == <<outOfView, repeats, attached>>
debounceVars == <<now, timeoutId, timers, calls, runs>>

vars == <<page, gateVars, animVars, envVars, debounceVars>>

D == [invocations |-> invocations,
      listeners |-> listeners,
      loadingEager |-> loadingEager,
      rafQueue |-> rafQueue,
      targets |-> observationTargets,
      dispatched |-> dispatched]

hasTextContent(element) ==
    \E n \in {element} \cup descendants(element) : ownText(n)

hasDependencies(element) ==
    LET hasImages == Cardinality(getElementsByTagName(element, "img")) > 0
        hasVideos == Cardinality(getElementsByTagName(element, "video")) > 0
    IN hasTextContent(element) \/ hasImages \/ hasVideos

\* mutant: the wait listens for load without looking at image.complete
loadImage_alwaysListens(image) ==
    [state |-> "pending", listens |-> TRUE]

\* new Promise(...) of loadImage: the promise's state after the executor ran,
\* and whether the executor registered the load and error listeners
loadImage(image) ==
    IF complete[image]
    THEN [state |-> "fulfilled", listens |-> FALSE]
    ELSE [state |-> "pending", listens |-> TRUE]

loadVideo(video) ==
    IF videoReadyState[video] >= HAVE_CURRENT_DATA \/ poster[video]
    THEN [state |-> "fulfilled", listens |-> FALSE]
    ELSE [state |-> "pending", listens |-> TRUE]

\* font?.loaded || document.fonts.ready: the promise the wait is
loadFonts(span) ==
    IF fontFace[span] # "none"
    THEN [promise |-> fontFace[span], state |-> faceLoaded[fontFace[span]]]
    ELSE [promise |-> "ready", state |-> fontsReady]

\* mutant: resolve and reject overwrite the state of a settled promise
settle_lastWins(state, outcome) == outcome

\* a promise settles once: resolve and reject act on a pending promise only
settle(state, outcome) == IF state = "pending" THEN outcome ELSE state

\* mutant: the join of Promise.allSettled, fulfilled once every wait settled
promiseAll_allSettled(join, waits) ==
    IF join # "pending" THEN join
    ELSE IF \A r \in DOMAIN waits : waits[r] # "pending" THEN "fulfilled"
    ELSE "pending"

\* mutant: the join looks at the outcomes only once every wait has settled
promiseAll_rejectsLate(join, waits) ==
    IF join # "pending" THEN join
    ELSE IF \E r \in DOMAIN waits : waits[r] = "pending" THEN "pending"
    ELSE IF \E r \in DOMAIN waits : waits[r] = "rejected" THEN "rejected"
    ELSE "fulfilled"

\* Promise.all over the waits: rejected with the first rejection, fulfilled
\* when every wait is fulfilled
promiseAll(join, waits) ==
    IF join # "pending" THEN join
    ELSE IF \E r \in DOMAIN waits : waits[r] = "rejected" THEN "rejected"
    ELSE IF \A r \in DOMAIN waits : waits[r] = "fulfilled" THEN "fulfilled"
    ELSE "pending"

loadElementResources(element, d) ==
    LET images == getElementsByTagName(element, "img")
        videos == getElementsByTagName(element, "video")
        spans == getElementsByTagName(element, "span")
        id == Len(d.invocations) + 1
        wait(r) == IF r \in images THEN loadImage(r).state
                   ELSE IF r \in videos THEN loadVideo(r).state
                   ELSE loadFonts(r).state
        listens(r) == IF r \in images THEN loadImage(r).listens
                      ELSE IF r \in videos THEN loadVideo(r).listens
                      ELSE FALSE
        new == [element |-> element,
                waits |-> [r \in images \cup videos \cup spans |-> wait(r)],
                promise |-> [r \in spans |-> loadFonts(r).promise],
                join |-> "pending",
                later |-> {}]
    IN [d EXCEPT
         !.invocations = Append(@, new),
         !.listeners = [r \in DOMAIN @ |->
                           IF r \in images \cup videos /\ listens(r)
                           THEN @[r] \cup {id} ELSE @[r]],
         !.loadingEager = @ \cup {r \in images : listens(r)}]

\* mutant: the callback is built and never given to requestAnimationFrame
requestAnimationFrameAndStart_lost(element, d) == d

requestAnimationFrameAndStart(element, d) ==
    [d EXCEPT !.rafQueue = Append(@, element)]

\* mutant: the join is started and not awaited
RECURSIVE startAnimationForElement_noAwait(_, _)
startAnimationForElement_noAwait(element, d) ==
    LET isAnimated == "animated" \in classList(element)
    IN IF isAnimated /\ hasDependencies(element)
       THEN requestAnimationFrameAndStart(element,
                                          loadElementResources(element, d))
       ELSE IF isAnimated
       THEN requestAnimationFrameAndStart(element, d)
       ELSE IF firstElementChild(element) # null
       THEN startAnimationForElement_noAwait(firstElementChild(element), d)
       ELSE d

\* mutant: an element that is not animated is never descended into
startAnimationForElement_noDescent(element, d) ==
    LET isAnimated == "animated" \in classList(element)
    IN IF isAnimated /\ hasDependencies(element)
       THEN loadElementResources(element, d)
       ELSE IF isAnimated
       THEN requestAnimationFrameAndStart(element, d)
       ELSE d

\* mutant: the last branch starts the element instead of doing nothing
RECURSIVE startAnimationForElement_startsLeaf(_, _)
startAnimationForElement_startsLeaf(element, d) ==
    LET isAnimated == "animated" \in classList(element)
    IN IF isAnimated /\ hasDependencies(element)
       THEN loadElementResources(element, d)
       ELSE IF isAnimated
       THEN requestAnimationFrameAndStart(element, d)
       ELSE IF firstElementChild(element) # null
       THEN startAnimationForElement_startsLeaf(firstElementChild(element), d)
       ELSE requestAnimationFrameAndStart(element, d)

\* mutant: the descent follows the last child instead of the first
RECURSIVE startAnimationForElement_lastChild(_, _)
startAnimationForElement_lastChild(element, d) ==
    LET isAnimated == "animated" \in classList(element)
    IN IF isAnimated /\ hasDependencies(element)
       THEN loadElementResources(element, d)
       ELSE IF isAnimated
       THEN requestAnimationFrameAndStart(element, d)
       ELSE IF children(element) # <<>>
       THEN startAnimationForElement_lastChild(
                children(element)[Len(children(element))], d)
       ELSE d

RECURSIVE startAnimationForElement(_, _)
startAnimationForElement(element, d) ==
    LET isAnimated == "animated" \in classList(element)
    IN IF isAnimated /\ hasDependencies(element)
       THEN loadElementResources(element, d)
       ELSE IF isAnimated
       THEN requestAnimationFrameAndStart(element, d)
       ELSE IF firstElementChild(element) # null
       THEN startAnimationForElement(firstElementChild(element), d)
       ELSE d

\* the microtask checkpoint after a task: every join whose waits have all
\* been fulfilled resumes its invocation, which asks for an animation frame;
\* a join with a rejected wait rejects and its invocation ends
\* mutant: a rejected join ends the checkpoint, later invocations are not resumed
RECURSIVE resumeInvocations_stopsAtRejection(_, _)
resumeInvocations_stopsAtRejection(i, d) ==
    IF i > Len(d.invocations) THEN d
    ELSE LET inv == d.invocations[i]
             join == promiseAll(inv.join, inv.waits)
             d1 == [d EXCEPT !.invocations[i].join = join]
         IN IF join = "rejected" THEN d1
            ELSE resumeInvocations_stopsAtRejection(i + 1,
                     IF inv.join = "pending" /\ join = "fulfilled"
                     THEN requestAnimationFrameAndStart(inv.element, d1)
                     ELSE d1)

\* mutant: the continuation starts the element only while it is in view
RECURSIVE resumeInvocations_onlyInView(_, _)
resumeInvocations_onlyInView(i, d) ==
    IF i > Len(d.invocations) THEN d
    ELSE LET inv == d.invocations[i]
             join == promiseAll(inv.join, inv.waits)
             d1 == [d EXCEPT !.invocations[i].join = join]
         IN resumeInvocations_onlyInView(i + 1,
                IF inv.join = "pending" /\ join = "fulfilled"
                   /\ inv.element \notin outOfView
                THEN requestAnimationFrameAndStart(inv.element, d1)
                ELSE d1)

RECURSIVE resumeInvocations(_, _)
resumeInvocations(i, d) ==
    IF i > Len(d.invocations) THEN d
    ELSE LET inv == d.invocations[i]
             join == promiseAll(inv.join, inv.waits)
             d1 == [d EXCEPT !.invocations[i].join = join]
         IN resumeInvocations(i + 1,
                IF inv.join = "pending" /\ join = "fulfilled"
                THEN requestAnimationFrameAndStart(inv.element, d1)
                ELSE d1)

microtasks(d) == resumeInvocations(1, d)

\* the callback given to new IntersectionObserver
RECURSIVE forEachEntry(_, _)
forEachEntry(entries, d) ==
    IF entries = <<>> THEN d
    ELSE LET entry == Head(entries)
             targetElement == entry.target
         IN forEachEntry(Tail(entries),
                IF ~entry.isIntersecting THEN d
                ELSE LET d1 == startAnimationForElement(targetElement,
                                  [d EXCEPT !.dispatched[targetElement] = @ + 1])
                     IN [d1 EXCEPT !.targets = @ \ {targetElement}])

CommitD(d) ==
    /\ invocations' = d.invocations
    /\ listeners' = d.listeners
    /\ loadingEager' = d.loadingEager
    /\ rafQueue' = d.rafQueue
    /\ observationTargets' = d.targets
    /\ dispatched' = d.dispatched


(***************************************************************************)
(* Initial state: the page starts loading, no script has run.  The media   *)
(* of the page may already be loaded (cached) or not.                      *)
(***************************************************************************)
Faces == {"f1"}

Init ==
    /\ page \in Pages
    /\ attached = {}
    /\ readyState = "loading"
    /\ domContentLoadedFired = FALSE
    /\ scriptsRun = {}
    /\ canva_scriptExecutor = "none"
    /\ constructed = 0
    /\ callbacks = <<>>
    /\ executed = <<>>
    /\ registrations = <<>>
    /\ canva_debounceResize = FALSE
    /\ resizeCallbacks = <<>>
    /\ observers = 0
    /\ observationTargets = {}
    /\ previousIsIntersecting = [e \in Elements |-> "unknown"]
    /\ queuedEntries = <<>>
    /\ complete \in [Images -> BOOLEAN]
    /\ \A i \in Images \ inDocument(page) : ~complete[i]
    /\ loadingEager = {}
    /\ videoReadyState \in [Videos -> {HAVE_CURRENT_DATA - 1, HAVE_CURRENT_DATA}]
    /\ poster \in [Videos -> BOOLEAN]
    /\ \A v \in Videos : ~(poster[v] /\ videoReadyState[v] >= HAVE_CURRENT_DATA)
    /\ \A v \in Videos \ inDocument(page) : videoReadyState[v] = HAVE_CURRENT_DATA - 1 /\ ~poster[v]
    /\ videoError = [v \in Videos |-> FALSE]
    /\ fontFace \in [Spans -> Faces \cup {"none"}]
    /\ \A s \in Spans \ inDocument(page) : fontFace[s] = "none"
    /\ faceLoaded \in [Faces -> {"pending", "fulfilled", "rejected"}]
    /\ fontsReady \in {"pending", "fulfilled"}
    \* a promise no span of the page can wait on is left pending
    /\ \A f \in Faces :
           (\A sp \in Spans \cap inDocument(page) : fontFace[sp] # f)
               => faceLoaded[f] = "pending"
    /\ (\A sp \in Spans \cap inDocument(page) : fontFace[sp] # "none")
           => fontsReady = "pending"
    /\ invocations = <<>>
    /\ listeners = [r \in Media |-> {}]
    /\ rafQueue = <<>>
    /\ animationPlayState = [e \in Elements |-> "paused"]
    /\ dispatched = [e \in Elements |-> 0]
    /\ flips = [e \in Elements |-> 0]
    /\ outOfView = {}
    /\ repeats = <<>>
    /\ now = 0
    /\ timeoutId = 0
    /\ timers = {}
    /\ calls = <<>>
    /\ runs = <<>>

(***************************************************************************)
(* Scripts and document events.                                            *)
(***************************************************************************)
\* the menu script: executeWhenReady(<the menu callback>)
MenuScript ==
    /\ <<"menu", 0>> \notin scriptsRun
    /\ scriptsRun' = scriptsRun \cup {<<"menu", 0>>}
    /\ Commit(executeWhenReady(menuCallback, MAX_VALUE, G))
    /\ UNCHANGED <<page, envVars, debounceVars, readyState, domContentLoadedFired, animVars>>

\* the animation script: the registration IIFE with observeAndAnimate
AnimationScript ==
    /\ <<"animation", 0>> \notin scriptsRun
    /\ scriptsRun' = scriptsRun \cup {<<"animation", 0>>}
    /\ Commit(registerAnimationSetup(observeCallback, MAX_VALUE, G))
    /\ UNCHANGED <<page, envVars, debounceVars, readyState, domContentLoadedFired, animVars>>

\* another script of the page that registers through executeWhenReady
OtherScript(k, priority) ==
    /\ <<"other", k>> \notin scriptsRun
    /\ scriptsRun' = scriptsRun \cup {<<"other", k>>}
    /\ Commit(executeWhenReady(otherCallback(k), priority, G))
    /\ UNCHANGED <<page, envVars, debounceVars, readyState, domContentLoadedFired, animVars>>

\* the parser finishes: document.readyState becomes "interactive"
ParsingDone ==
    /\ readyState = "loading"
    /\ readyState' = "interactive"
    /\ UNCHANGED <<page, envVars, debounceVars, domContentLoadedFired, scriptsRun, canva_scriptExecutor,
                   constructed, callbacks, executed, registrations,
                   canva_debounceResize, resizeCallbacks, observers,
                   observationTargets, animVars>>

\* the DOMContentLoaded event: the listener of the coordinator, if one was
\* constructed by now, drains the queue
DOMContentLoaded ==
    /\ readyState = "interactive"
    /\ ~domContentLoadedFired
    /\ domContentLoadedFired' = TRUE
    /\ Commit(CASE canva_scriptExecutor = "DOMContentLoadedHandler" ->
                       Handler_onDOMContentLoaded(G)
                [] canva_scriptExecutor = "DOMContentLoadedManager" ->
                       Manager_onDOMContentLoaded(G)
                [] OTHER -> G)
    /\ UNCHANGED <<page, envVars, debounceVars, readyState, scriptsRun, animVars>>

\* the window's load event: document.readyState becomes "complete"
WindowLoad ==
    /\ readyState = "interactive"
    /\ domContentLoadedFired
    /\ readyState' = "complete"
    /\ UNCHANGED <<page, envVars, debounceVars, domContentLoadedFired, scriptsRun, canva_scriptExecutor,
                   constructed, callbacks, executed, registrations,
                   canva_debounceResize, resizeCallbacks, observers,
                   observationTargets, animVars>>

(***************************************************************************)
(* The visibility observer.                                                *)
(***************************************************************************)
\* the observer finds that an observed target's intersection changed and
\* queues an entry for it
Intersect(target, isIntersecting) ==
    /\ target \in observationTargets
    /\ Len(queuedEntries) < MaxEntries
    /\ previousIsIntersecting[target] # isIntersecting
    /\ previousIsIntersecting' =
           [previousIsIntersecting EXCEPT ![target] = isIntersecting]
    /\ queuedEntries' = Append(queuedEntries,
           [target |-> target, isIntersecting |-> isIntersecting = "yes"])
    /\ UNCHANGED <<page, envVars, debounceVars, gateVars, complete, loadingEager, videoReadyState,
                   poster, videoError, fontFace, faceLoaded, fontsReady, invocations,
                   listeners, rafQueue, animationPlayState, dispatched, flips>>

\* mutant: the dispatcher sets the state itself instead of asking for an
\* animation frame
Notify_startsInline ==
    /\ queuedEntries # <<>>
    /\ queuedEntries' = <<>>
    /\ LET d == microtasks(forEachEntry(queuedEntries, D))
           asked == Range(d.rafQueue)
       IN /\ CommitD([d EXCEPT !.rafQueue = <<>>])
          /\ animationPlayState' =
                 [e \in Elements |->
                     IF e \in asked THEN "running" ELSE animationPlayState[e]]
          /\ flips' = [e \in Elements |->
                          IF e \in asked /\ animationPlayState[e] # "running"
                          THEN flips[e] + 1 ELSE flips[e]]
    /\ UNCHANGED <<page, envVars, debounceVars, readyState,
                   domContentLoadedFired, scriptsRun,
                   canva_scriptExecutor, constructed, callbacks, executed,
                   registrations, canva_debounceResize, resizeCallbacks,
                   observers,
                   previousIsIntersecting, complete, videoReadyState, poster,
                   videoError, fontFace, faceLoaded, fontsReady>>

\* the observer delivers its queued entries to the callback
Notify ==
    /\ queuedEntries # <<>>
    /\ queuedEntries' = <<>>
    /\ CommitD(microtasks(forEachEntry(queuedEntries, D)))
    /\ UNCHANGED <<page, envVars, debounceVars, readyState, domContentLoadedFired, scriptsRun,
                   canva_scriptExecutor, constructed, callbacks, executed,
                   registrations, canva_debounceResize, resizeCallbacks,
                   observers,
                   previousIsIntersecting, complete, videoReadyState, poster,
                   videoError, fontFace, faceLoaded, fontsReady,
                   animationPlayState, flips>>

\* A container that was dispatched, and so unobserved, scrolls out of the
\* viewport while its join is pending.  The observer no longer follows the
\* container and no code of the page runs.
LeaveViewport(c) ==
    /\ c \in inDocument(page)
    /\ c \notin observationTargets
    /\ c \notin outOfView
    /\ \E i \in DOMAIN invocations :
           invocations[i].element = c /\ invocations[i].join = "pending"
    /\ outOfView' = outOfView \cup {c}
    /\ UNCHANGED <<page, gateVars, animVars, repeats, attached, debounceVars>>

\* Another script attaches an element under S once the observer is set up
\* (an element attached earlier is part of the page as the setup finds it).
\* An attached image may be complete already, an attached video may declare
\* a poster, the font of an attached span may be a face of document.fonts.
Attach(e) ==
    /\ page = "single"
    /\ observers > 0
    /\ e \in LateElements \ attached
    /\ Cardinality(attached) < MaxLate
    /\ attached' = attached \cup {e}
    /\ IF e \in Images
       THEN \E b \in BOOLEAN : complete' = [complete EXCEPT ![e] = b]
       ELSE UNCHANGED complete
    /\ IF e \in Videos
       THEN \E b \in BOOLEAN : poster' = [poster EXCEPT ![e] = b]
       ELSE UNCHANGED poster
    /\ IF e \in Spans
       THEN \E f \in Faces \cup {"none"} : fontFace' = [fontFace EXCEPT ![e] = f]
       ELSE UNCHANGED fontFace
    /\ UNCHANGED <<page, gateVars, previousIsIntersecting, queuedEntries,
                   loadingEager, videoReadyState, videoError,
                   faceLoaded, fontsReady, invocations, listeners, rafQueue,
                   animationPlayState, dispatched, flips, outOfView, repeats,
                   debounceVars>>

(***************************************************************************)
(* Resource events.                                                        *)
(***************************************************************************)
\* the listeners registered on a media element run: resolve or reject
runListeners(r, outcome, d) ==
    [d EXCEPT !.invocations =
        [i \in DOMAIN @ |->
            IF i \in d.listeners[r]
            THEN [@[i] EXCEPT !.waits[r] = settle(@, outcome)]
            ELSE @[i]]]

\* a font promise settles: every wait that is this promise settles with it
settleFontWaits(ref, outcome, d) ==
    [d EXCEPT !.invocations =
        [i \in DOMAIN @ |->
            [@[i] EXCEPT !.waits =
                [r \in DOMAIN @ |->
                    IF r \in DOMAIN d.invocations[i].promise
                       /\ d.invocations[i].promise[r] = ref
                    THEN settle(@[r], outcome) ELSE @[r]]]]]

\* history: the invocations that already hold a wait for r see an event on r
noteEvent(r, d) ==
    [d EXCEPT !.invocations =
        [i \in DOMAIN @ |->
            IF r \in DOMAIN @[i].waits
            THEN [@[i] EXCEPT !.later = @ \cup {r}] ELSE @[i]]]

\* An event on an element is followed from the moment some join holds a wait
\* for the element; an earlier event leaves nothing but the flags of the
\* element (complete, readyState, error), which Init draws.  The events of
\* an element attached late are followed from the moment it is attached.
MediaEvent(r, outcome) ==
    /\ \/ \E i \in DOMAIN invocations : r \in DOMAIN invocations[i].waits
       \/ r \in attached
    /\ CommitD(microtasks(runListeners(r, outcome, noteEvent(r, D))))
    /\ UNCHANGED <<page, envVars, debounceVars, readyState, domContentLoadedFired, scriptsRun,
                   canva_scriptExecutor, constructed, callbacks, executed,
                   registrations, canva_debounceResize, resizeCallbacks,
                   observers,
                   previousIsIntersecting, queuedEntries, poster, fontFace,
                   faceLoaded, fontsReady, animationPlayState, flips>>

\* the image's load event: an image that is not complete finishes loading
ImageLoad(image) ==
    /\ image \in Images
    /\ ~complete[image]
    /\ complete' = [complete EXCEPT ![image] = TRUE]
    /\ MediaEvent(image, "fulfilled")
    /\ UNCHANGED <<videoReadyState, videoError>>

\* the image's error event: loading failed; a broken image is complete too
ImageError(image) ==
    /\ image \in Images
    /\ ~complete[image]
    /\ complete' = [complete EXCEPT ![image] = TRUE]
    /\ MediaEvent(image, "rejected")
    /\ UNCHANGED <<videoReadyState, videoError>>

\* the video's loadeddata event: the first frame is there
VideoLoadedData(video) ==
    /\ video \in Videos
    /\ videoReadyState[video] < HAVE_CURRENT_DATA
    /\ ~videoError[video]
    /\ videoReadyState' = [videoReadyState EXCEPT ![video] = HAVE_CURRENT_DATA]
    /\ MediaEvent(video, "fulfilled")
    /\ UNCHANGED <<complete, videoError>>

\* the video's error event: loading or decoding failed, before or after the
\* first frame
VideoError(video) ==
    /\ video \in Videos
    /\ ~videoError[video]
    /\ videoError' = [videoError EXCEPT ![video] = TRUE]
    /\ MediaEvent(video, "rejected")
    /\ UNCHANGED <<complete, videoReadyState>>

\* A media element with listeners fires a further load, loadeddata or error
\* event (its source was changed, the load was restarted, decoding failed
\* after the first frame): the listeners, which are never removed, run again.
RepeatedEvent(r, outcome) ==
    /\ r \in Media
    /\ listeners[r] # {}
    /\ Len(repeats) < MaxRepeats
    /\ repeats' = Append(repeats, <<r, outcome>>)
    /\ CommitD(microtasks(runListeners(r, outcome, noteEvent(r, D))))
    /\ UNCHANGED <<page, readyState, domContentLoadedFired, scriptsRun,
                   canva_scriptExecutor, constructed, callbacks, executed,
                   registrations, canva_debounceResize, resizeCallbacks,
                   observers,
                   previousIsIntersecting, queuedEntries, complete,
                   videoReadyState, poster, videoError, fontFace,
                   faceLoaded, fontsReady, animationPlayState, flips,
                   outOfView, attached, debounceVars>>

\* a font face finishes loading, or fails to
FontFaceSettles(face, outcome) ==
    /\ \E i \in DOMAIN invocations :
           \E r \in DOMAIN invocations[i].promise :
               invocations[i].promise[r] = face
    /\ faceLoaded[face] = "pending"
    /\ faceLoaded' = [faceLoaded EXCEPT ![face] = outcome]
    /\ CommitD(microtasks(settleFontWaits(face, outcome, D)))
    /\ UNCHANGED <<page, envVars, debounceVars, readyState, domContentLoadedFired, scriptsRun,
                   canva_scriptExecutor, constructed, callbacks, executed,
                   registrations, canva_debounceResize, resizeCallbacks,
                   observers,
                   previousIsIntersecting, queuedEntries, complete,
                   videoReadyState, poster, videoError, fontFace, fontsReady,
                   animationPlayState, flips>>

\* document.fonts.ready resolves
FontsReady ==
    /\ \E i \in DOMAIN invocations :
           \E r \in DOMAIN invocations[i].promise :
               invocations[i].promise[r] = "ready"
    /\ fontsReady = "pending"
    /\ fontsReady' = "fulfilled"
    /\ CommitD(microtasks(settleFontWaits("ready", "fulfilled", D)))
    /\ UNCHANGED <<page, envVars, debounceVars, readyState, domContentLoadedFired, scriptsRun,
                   canva_scriptExecutor, constructed, callbacks, executed,
                   registrations, canva_debounceResize, resizeCallbacks,
                   observers,
                   previousIsIntersecting, queuedEntries, complete,
                   videoReadyState, poster, videoError, fontFace, faceLoaded,
                   animationPlayState, flips>>

(***************************************************************************)
(* The rendering opportunity: the callbacks given to requestAnimationFrame *)
(* run, each setting its element's animationPlayState to "running".        *)
(***************************************************************************)
AnimationFrame ==
    /\ rafQueue # <<>>
    /\ animationPlayState' =
           [e \in Elements |->
               IF e \in Range(rafQueue) THEN "running" ELSE animationPlayState[e]]
    /\ flips' = [e \in Elements |->
                    IF e \in Range(rafQueue) /\ animationPlayState[e] # "running"
                    THEN flips[e] + 1 ELSE flips[e]]
    /\ rafQueue' = <<>>
    /\ UNCHANGED <<page, envVars, debounceVars, gateVars, previousIsIntersecting, queuedEntries,
                   complete, loadingEager, videoReadyState, poster,
                   videoError, fontFace, faceLoaded, fontsReady, invocations, listeners,
                   dispatched>>

(***************************************************************************)
(* Two specifications.  GateSpec is the startup of the page: the scripts   *)
(* (this repository's two and the other callers of the gate) and the       *)
(* document's events.  Spec is the animation script on its page: its       *)
(* registration, the document's events that release it, the observer, the  *)
(* resource events and the animation frames.                               *)
(***************************************************************************)
GateNext ==
    \/ MenuScript
    \/ AnimationScript
    \/ \E k \in OtherScripts, p \in Priorities : OtherScript(k, p)
    \/ ParsingDone
    \/ DOMContentLoaded
    \/ WindowLoad

GateSpec == Init /\ [][GateNext]_vars

Next ==
    \/ AnimationScript
    \/ ParsingDone
    \/ DOMContentLoaded
    \/ \E c \in Elements, b \in {"yes", "no"} : Intersect(c, b)
    \/ Notify
    \/ \E i \in Images : ImageLoad(i)
    \/ \E i \in Images : ImageError(i)
    \/ \E v \in Videos : VideoLoadedData(v)
    \/ \E v \in Videos : VideoError(v)
    \/ \E f \in Faces, o \in {"fulfilled", "rejected"} : FontFaceSettles(f, o)
    \/ FontsReady
    \/ AnimationFrame

Spec == Init /\ [][Next]_vars

\* rendering opportunities keep occurring: a requested animation frame comes
FairSpec == Spec /\ WF_vars(AnimationFrame)

\* the animation script on the page with one container, to which another
\* script attaches elements before and after the container is dispatched
SnapshotInit == Init /\ page = "single"

SnapshotNext ==
    \/ Next
    \/ \E e \in LateElements : Attach(e)

SnapshotSpec == SnapshotInit /\ [][SnapshotNext]_vars

\* the same page, whose dispatched container may leave the viewport again;
\* rendering opportunities keep occurring
NoCancelNext ==
    \/ SnapshotNext
    \/ \E c \in Divs : LeaveViewport(c)

NoCancelSpec ==
    SnapshotInit /\ [][NoCancelNext]_vars /\ WF_vars(AnimationFrame)

(***************************************************************************)
(* debounce(callbackFunction, delayInMilliseconds): the function it        *)
(* returns, its timeoutId and the timers of the window.  A timer runs its  *)
(* callback when its delay has elapsed, or later: the event loop may take  *)
(* other tasks, calls of the debounced function among them, first.         *)
(***************************************************************************)
\* the arguments a caller may pass
Args == {"a", "b"}

\* mutant: the pending timer is left alone
clearTimeout_noop(id, ts) == ts

clearTimeout(id, ts) == {t \in ts : t.id # id}

\* setTimeout(() => callbackFunction(...args), delay): the timers with the
\* new one, whose id is id
setTimeout(id, args, delay, ts) ==
    ts \cup {[id |-> id, due |-> now + delay, args |-> args]}

\* a call of the function debounce returned
DebouncedCall(args) ==
    /\ Len(calls) < MaxCalls
    /\ now + Delay <= MaxTime
    /\ LET id == Len(calls) + 1
       IN /\ timers' = setTimeout(id, args, Delay,
                                  clearTimeout(timeoutId, timers))
          /\ timeoutId' = id
    /\ calls' = Append(calls, [time |-> now, args |-> args])
    /\ UNCHANGED <<page, gateVars, animVars, envVars, now, runs>>

\* a timer whose delay has elapsed runs: callbackFunction(...args)
TimerFires(id) ==
    \E t \in timers :
        /\ t.id = id
        /\ t.due <= now
        /\ timers' = timers \ {t}
        /\ runs' = Append(runs, [time |-> now, args |-> t.args,
                                 call |-> t.id, last |-> Len(calls)])
        /\ UNCHANGED <<page, gateVars, animVars, envVars, now, timeoutId,
                       calls>>

\* time passes
Tick ==
    /\ now < MaxTime
    /\ now' = now + 1
    /\ UNCHANGED <<page, gateVars, animVars, envVars, timeoutId, timers,
                   calls, runs>>

DebounceInit == Init /\ page = "empty"

DebounceNext ==
    \/ \E args \in Args : DebouncedCall(args)
    \/ \E id \in 1..MaxCalls : TimerFires(id)
    \/ Tick

\* time passes and a timer whose delay has elapsed runs in the end
DebounceSpec ==
    /\ DebounceInit
    /\ [][DebounceNext]_vars
    /\ WF_vars(Tick)
    /\ WF_vars(\E id \in 1..MaxCalls : TimerFires(id))

\* the same page, whose media elements fire events repeatedly
RepeatNext ==
    \/ SnapshotNext
    \/ \E r \in Media, o \in {"fulfilled", "rejected"} : RepeatedEvent(r, o)

RepeatSpec == SnapshotInit /\ [][RepeatNext]_vars

(***************************************************************************)
(* Properties.                                                             *)
(***************************************************************************)
invocationsOf(e) == {i \in DOMAIN invocations : invocations[i].element = e}

allFulfilled(i) ==
    \A r \in DOMAIN invocations[i].waits : invocations[i].waits[r] = "fulfilled"

someRejected(i) ==
    \E r \in DOMAIN invocations[i].waits : invocations[i].waits[r] = "rejected"

\* the element runs, or the callback that makes it run is scheduled
started(e) == animationPlayState[e] = "running" \/ e \in Range(rafQueue)

\* C1: the animation state of an element changes to "running" at most once,
\* and an element with dependencies is started only when joins were built
\* for it and every wait of them (image, video, font) is fulfilled.
C1_RunningOnceAfterWaits ==
    \A e \in Elements :
        /\ flips[e] <= 1
        /\ started(e) =>
               /\ \A i \in invocationsOf(e) : allFulfilled(i)
               /\ hasDependencies(e) => invocationsOf(e) # {}

\* A runs after its image and its video were both waited for with listeners
C1_Witness ==
    /\ animationPlayState["A"] = "running"
    /\ listeners["i1"] # {}
    /\ listeners["v1"] # {}
    /\ \E i \in invocationsOf("A") : DOMAIN invocations[i].waits = {"i1", "v1", "s1"}

\* a rejected wait rejects the join and the element is not started
C2_RejectedInv ==
    \A i \in DOMAIN invocations :
        someRejected(i) =>
            /\ invocations[i].join = "rejected"
            /\ ~started(invocations[i].element)

C2_NoRetry ==
    \A e \in Elements :
        (\E i \in invocationsOf(e) : someRejected(i)) =>
            {i \in DOMAIN invocations' : invocations'[i].element = e}
                = invocationsOf(e)

\* C2: an element one of whose waits is rejected has a rejected join, is
\* never started (whatever its other waits do), and is not tried again: no
\* further join is built for it.
C2_RejectedNeverRuns == []C2_RejectedInv /\ [][C2_NoRetry]_vars

\* A's image wait is rejected while its video and font waits are fulfilled
C2_Witness ==
    \E i \in invocationsOf("A") :
        /\ invocations[i].waits["i1"] = "rejected"
        /\ invocations[i].waits["v1"] = "fulfilled"
        /\ invocations[i].waits["s1"] = "fulfilled"
        /\ rafQueue = <<>>

\* C3: the observer hands every container to the dispatcher at most once,
\* also when one notification carries several entries for the container.
C3_DispatchedAtMostOnce ==
    \A c \in Elements : dispatched[c] <= 1

\* beside a rejected join, elements start by their own waits alone
C4_IsolatedInv ==
    \A a \in DOMAIN invocations, b \in DOMAIN invocations :
        (invocations[a].element # invocations[b].element
         /\ invocations[a].join = "rejected") =>
            /\ allFulfilled(b) => /\ invocations[b].join = "fulfilled"
                                  /\ started(invocations[b].element)
            /\ started(invocations[b].element) => allFulfilled(b)

C4_ObserverGoesOn ==
    \A b \in Elements :
        (/\ \E a \in DOMAIN invocations : invocations[a].join = "rejected"
         /\ queuedEntries' = <<>>
         /\ \E k \in DOMAIN queuedEntries :
                queuedEntries[k].target = b /\ queuedEntries[k].isIntersecting)
        => /\ dispatched'[b] > dispatched[b]
           /\ b \notin observationTargets'

\* C4: a rejected join of one element neither holds back nor causes the
\* start of another: beside a rejected join, an element whose own waits are
\* all fulfilled is started, an element is started only with its own waits
\* fulfilled, and the observer goes on dispatching the containers it finds
\* intersecting.
C4_FailuresIsolated == []C4_IsolatedInv /\ [][C4_ObserverGoesOn]_vars

\* B runs after waiting for its image although A's join was rejected before
\* B was dispatched
C4_Witness ==
    /\ animationPlayState["B"] = "running"
    /\ listeners["i2"] # {}
    /\ \E a \in invocationsOf("A"), b \in invocationsOf("B") :
           a < b /\ invocations[a].join = "rejected"

\* a wait built for a ready image or video is fulfilled and has no listener
C7_BuiltReady ==
    \A i \in DOMAIN invocations' :
        i > Len(invocations) =>
            \A r \in DOMAIN invocations'[i].waits :
                ((r \in Images /\ complete[r])
                 \/ (r \in Videos /\ (videoReadyState[r] >= HAVE_CURRENT_DATA
                                      \/ poster[r])))
                => /\ invocations'[i].waits[r] = "fulfilled"
                   /\ i \notin listeners'[r]

C7_StaysReady ==
    \A i \in DOMAIN invocations :
        \A r \in DOMAIN invocations[i].waits \cap Media :
            (invocations[i].waits[r] = "fulfilled" /\ i \notin listeners[r])
            => /\ invocations'[i].waits[r] = "fulfilled"
               /\ i \notin listeners'[r]

\* C7: a wait built for an image that is complete, or for a video that has
\* its current frame or a poster, is fulfilled when it is built and holds no
\* listener on the element; no later event changes either.
C7_ReadyAtCreation == [][C7_BuiltReady /\ C7_StaysReady]_vars

\* A's image was complete and its video had a poster and no frame when the
\* join was built: neither wait holds a listener, both are fulfilled, and
\* the video has fired an event since
C7_Witness ==
    /\ complete["i1"]
    /\ poster["v1"]
    /\ \E i \in invocationsOf("A") :
           /\ "v1" \in invocations[i].later
           /\ i \notin listeners["i1"]
           /\ i \notin listeners["v1"]
           /\ invocations[i].waits["i1"] = "fulfilled"
           /\ invocations[i].waits["v1"] = "fulfilled"

\* C8: once every wait of a join built for an element is fulfilled, the
\* element comes to run (rendering opportunities keep occurring).
C8_EventuallyRunning ==
    /\ [](\A i \in DOMAIN invocations :
             invocations[i].element \in {"A", "B", "T", "S"})
    /\ \A e \in {"A", "B", "T", "S"} :    \* the elements a join is built for
           (\E i \in invocationsOf(e) : allFulfilled(i))
               ~> (animationPlayState[e] = "running")

\* A runs; its image was complete and its video had a poster and no frame
\* when the join was built, and the video has fired nothing since
C8_Witness ==
    /\ animationPlayState["A"] = "running"
    /\ poster["v1"]
    /\ videoReadyState["v1"] < HAVE_CURRENT_DATA
    /\ \E i \in invocationsOf("A") :
           /\ i \notin listeners["i1"]
           /\ i \notin listeners["v1"]
           /\ invocations[i].later = {}

\* the element passes the start on to its first child
delegates(c) ==
    /\ "animated" \notin classList(c)
    /\ ~hasDependencies(c)
    /\ firstElementChild(c) # null
    /\ "animated" \in classList(firstElementChild(c))
    /\ ~hasDependencies(firstElementChild(c))

C9_DelegatedInv ==
    \A c \in Elements :
        delegates(c) =>
            /\ ~started(c)
            /\ invocationsOf(c) = {}
            /\ invocationsOf(firstElementChild(c)) = {}
            /\ dispatched[c] > 0 => started(firstElementChild(c))

\* C9: a dispatched element that is not animated and has no text or media,
\* and whose first child is animated without dependencies: the child is
\* started and comes to run, no join is built for either, and the element
\* itself is never started.
C9_ChildRuns ==
    /\ []C9_DelegatedInv
    /\ [](\A c \in Elements : delegates(c) /\ dispatched[c] > 0 => c = "C")
    /\ \A c \in {"C"} :    \* the dispatched element that delegates
           (delegates(c) /\ dispatched[c] > 0)
               ~> (delegates(c)
                   /\ animationPlayState[firstElementChild(c)] = "running")

\* C was dispatched, D runs and C does not
C9_Witness ==
    /\ dispatched["C"] = 1
    /\ animationPlayState["D"] = "running"
    /\ animationPlayState["C"] = "paused"

\* nothing on the element or below it can be started
bottomsOut(e) ==
    /\ "animated" \notin classList(e)
    /\ ~hasDependencies(e)
    /\ firstElementChild(e) = null

C10_NothingStarted ==
    \A e \in Elements :
        bottomsOut(e) => ~started(e) /\ invocationsOf(e) = {}

C10_DispatchIsNoOp ==
    (/\ queuedEntries # <<>>
     /\ queuedEntries' = <<>>
     /\ \A k \in DOMAIN queuedEntries :
            queuedEntries[k].isIntersecting => bottomsOut(queuedEntries[k].target))
    => UNCHANGED <<animationPlayState, invocations, listeners, loadingEager,
                   rafQueue>>

\* C10: dispatching elements that are not animated and have neither
\* dependencies nor a child element changes no animation state, builds no
\* join, registers no listener and schedules no animation frame.
C10_BottomsOut == []C10_NothingStarted /\ [][C10_DispatchIsNoOp]_vars

\* E is the only element dispatched so far
C10_Witness ==
    /\ dispatched["E"] = 1
    /\ \A e \in Elements \ {"E"} : dispatched[e] = 0
    /\ "E" \notin observationTargets


\* how often x occurs in the sequence, and where it occurs first
count(seq, x) == Cardinality({i \in DOMAIN seq : seq[i] = x})
position(seq, x) == CHOOSE i \in DOMAIN seq : seq[i] = x

registeredWhileLoading ==
    {k \in DOMAIN registrations : registrations[k].readyState = "loading"}
registeredWhenParsed ==
    {k \in DOMAIN registrations : registrations[k].readyState # "loading"}

C6_ParsedRunsAtOnce ==
    /\ \A k \in registeredWhenParsed :
           /\ count(executed, registrations[k].callback) = 1
           /\ \A j \in DOMAIN callbacks :
                  callbacks[j].callback # registrations[k].callback
    /\ \A k1 \in registeredWhenParsed, k2 \in registeredWhenParsed :
           k1 < k2 => position(executed, registrations[k1].callback)
                          < position(executed, registrations[k2].callback)

\* the menu callback was queued, and while the queue was drained it
\* registered adjustMenuDisplay, which has run
C6_Witness ==
    /\ domContentLoadedFired
    /\ \E k \in registeredWhileLoading :
           registrations[k].callback = menuCallback
    /\ \E k \in registeredWhenParsed :
           registrations[k].callback = adjustMenuDisplay
    /\ count(executed, adjustMenuDisplay) = 1

\* the setup callback has run
setupRan == count(executed, observeCallback) > 0

\* no observer, no dispatch, no wait and no animation activity
noActivity ==
    /\ observers = 0
    /\ observationTargets = {}
    /\ queuedEntries = <<>>
    /\ invocations = <<>>
    /\ rafQueue = <<>>
    /\ \A e \in Elements :
           /\ dispatched[e] = 0
           /\ animationPlayState[e] = "paused"
           /\ e \in Media => listeners[e] = {}

C11_SetupInv ==
    /\ ~setupRan => noActivity
    /\ (setupRan /\ querySelectorAll(page, "animation_container") = {})
           => noActivity
    /\ (setupRan /\ querySelectorAll(page, "animation_container") # {})
           => observers = 1

\* the step that creates the observer leaves it observing every container
C11_ObservesAll ==
    observers' # observers =>
        observationTargets' = querySelectorAll(page, "animation_container")

\* C11: when setup runs and no element matches .animation_container, no
\* observer is created and no dispatch, wait or animation state change ever
\* follows; when one matches, exactly one observer is created and it
\* observes every matching container.
C11_ObserverIffContainers == []C11_SetupInv /\ [][C11_ObservesAll]_vars

\* setup has run on the page without containers
C11_Witness ==
    /\ page = "empty"
    /\ setupRan
    /\ domContentLoadedFired

\* the join is fulfilled exactly when every wait is, and rejected exactly
\* when some wait is, whatever the state of the others
C12_JoinInv ==
    \A i \in DOMAIN invocations :
        /\ invocations[i].join = "fulfilled" <=> allFulfilled(i)
        /\ invocations[i].join = "rejected" <=> someRejected(i)

\* a settled join keeps its outcome
C12_JoinStays ==
    \A i \in DOMAIN invocations :
        invocations[i].join # "pending" =>
            invocations'[i].join = invocations[i].join

\* C12: the join built for a container is fulfilled only when every wait is
\* fulfilled; it is rejected as soon as one wait is rejected, with other
\* waits still pending; once rejected, waits fulfilled later do not make it
\* a success.
C12_JoinSemantics == []C12_JoinInv /\ [][C12_JoinStays]_vars

\* A's join is rejected by its image while its video wait is still pending
C12_Witness ==
    \E i \in invocationsOf("A") :
        /\ invocations[i].join = "rejected"
        /\ invocations[i].waits["i1"] = "rejected"
        /\ invocations[i].waits["v1"] = "pending"

\* only the container S, whose join can be pending, can be out of view
C13_OnlyPendingLeave == outOfView \subseteq {"S"}

\* no step drops a join, a wait or a listener
C13_WaitsKept ==
    \A i \in DOMAIN invocations :
        /\ i \in DOMAIN invocations'
        /\ invocations'[i].element = invocations[i].element
        /\ DOMAIN invocations'[i].waits = DOMAIN invocations[i].waits
        /\ \A r \in Media : i \in listeners[r] => i \in listeners'[r]

\* C13: once a container is dispatched and its join has started, neither
\* the unobserve nor its leaving the viewport cancels the wait: a container
\* that left the viewport with its join pending comes to run once every
\* wait of the join is fulfilled.
C13_NoCancellation ==
    /\ []C13_OnlyPendingLeave
    /\ [][C13_WaitsKept]_vars
    /\ \A c \in {"S"} :    \* the container whose join can be pending
           (c \in outOfView /\ \E i \in invocationsOf(c) : allFulfilled(i))
               ~> (animationPlayState[c] = "running")

\* S left the viewport while its join was pending, and runs
C13_Witness ==
    /\ "S" \in outOfView
    /\ "S" \notin observationTargets
    /\ animationPlayState["S"] = "running"

\* the images, videos and spans below an element
resourcesBelow(e) ==
    {d \in descendants(e) : tagName(d) \in {"img", "video", "span"}}

\* a join holds one wait per image, video and span that is below its
\* element in the step that builds it, and the waits of a join stay the same
C14_SnapshotAtDispatch ==
    /\ \A i \in DOMAIN invocations' :
           i > Len(invocations) =>
               DOMAIN invocations'[i].waits
                   = resourcesBelow(invocations'[i].element)
    /\ \A i \in DOMAIN invocations :
           DOMAIN invocations'[i].waits = DOMAIN invocations[i].waits

\* an event of a media element, or its being attached, changes no join that
\* holds no wait for it
C14_LateIgnored ==
    \A r \in Media :
        (\/ r \in Images /\ complete'[r] # complete[r]
         \/ r \in Videos /\ videoReadyState'[r] # videoReadyState[r]
         \/ r \in Videos /\ videoError'[r] # videoError[r]
         \/ r \in attached' \ attached)
        => \A i \in DOMAIN invocations :
               r \notin DOMAIN invocations[i].waits
                   => invocations'[i] = invocations[i]

\* a join whose own waits are fulfilled has started its element, whatever
\* the state of the elements attached since
C14_NotHeldBack ==
    \A i \in DOMAIN invocations :
        allFulfilled(i) => started(invocations[i].element)

\* C14: the waits joined for a container are one per image, video and span
\* below it at the instant of dispatch; an element attached below it later,
\* while the join is pending, is not waited on, and its load or error
\* neither delays nor prevents the start of the container.
C14_Snapshot ==
    /\ [][C14_SnapshotAtDispatch /\ C14_LateIgnored]_vars
    /\ []C14_NotHeldBack

\* S was dispatched with its image pending, a video was attached below it
\* and failed, and S runs
C14_Witness ==
    /\ "v2" \in attached
    /\ videoError["v2"]
    /\ animationPlayState["S"] = "running"
    /\ \E i \in invocationsOf("S") :
           /\ DOMAIN invocations[i].waits = {"i3"}
           /\ i \in listeners["i3"]

\* C15: a wait settles at most once: over any interleaving of load,
\* loadeddata and error events of its element, repeated ones and an error
\* after a load included, a wait that is fulfilled or rejected keeps that
\* outcome.
C15_SettlesOnce ==
    [][\A i \in DOMAIN invocations :
          \A r \in DOMAIN invocations[i].waits :
              invocations[i].waits[r] # "pending" =>
                  invocations'[i].waits[r] = invocations[i].waits[r]]_vars

\* the image's wait is fulfilled although its listeners saw an error event,
\* which can only have come after the load
C15_Witness ==
    \E i \in invocationsOf("S") :
        /\ i \in listeners["i3"]
        /\ invocations[i].waits["i3"] = "fulfilled"
        /\ <<"i3", "rejected">> \in Range(repeats)

\* C16: the state of an element is never set to "running" in the step that
\* dispatches it nor in the step that completes its join: it changes only
\* in a later step, the animation frame, in which the callback queued for
\* the element runs; until then the element is dispatched, ready and not
\* running.
C16_FlipDeferred ==
    [][\A e \in Elements :
          animationPlayState'[e] # animationPlayState[e] =>
              /\ animationPlayState'[e] = "running"
              /\ e \in Range(rafQueue)
              /\ rafQueue' = <<>>
              /\ UNCHANGED <<dispatched, invocations, queuedEntries,
                             observationTargets, listeners>>]_vars

\* A's join was completed by the load event of its image, the frame callback
\* is queued and A is not running
C16_Witness ==
    /\ "A" \in Range(rafQueue)
    /\ animationPlayState["A"] = "paused"
    /\ \E i \in invocationsOf("A") :
           invocations[i].join = "fulfilled" /\ listeners["i1"] = {i}


\* at most one coordinator exists, and the handle holds it
C17_OneCoordinator ==
    /\ constructed <= 1
    /\ constructed = 0 <=> canva_scriptExecutor = "none"
    /\ registrations # <<>> => constructed = 1

\* the coordinator in the handle is never replaced, and a registration made
\* while the document is loading extends the one queue
C17_SameQueue ==
    /\ canva_scriptExecutor # "none" =>
           /\ canva_scriptExecutor' = canva_scriptExecutor
           /\ constructed' = constructed
    /\ (Len(registrations') = Len(registrations) + 1 /\ readyState = "loading")
           => LET r == registrations'[Len(registrations')]
              IN callbacks' = Append(callbacks, [callback |-> r.callback,
                                                 priority |-> r.priority])

\* C17: over any order of the scripts that register startup callbacks, at
\* most one coordinator is constructed and stored in the global handle, it
\* is never replaced, and every registration of every script goes to the
\* queue of that object.
C17_Singleton == []C17_OneCoordinator /\ [][C17_SameQueue]_vars

\* the animation script ran first and constructed the coordinator; the menu
\* script and another script registered with it
C17_Witness ==
    /\ canva_scriptExecutor = "DOMContentLoadedManager"
    /\ constructed = 1
    /\ Len(callbacks) = 3
    /\ callbacks[1].callback = observeCallback
    /\ \E k \in 2..3 : callbacks[k].callback = menuCallback

\* the first element tagged "animated" on the chain e, its first child, that
\* child's first child, and so on; null when the chain ends without one
RECURSIVE firstAnimated(_)
firstAnimated(e) ==
    IF "animated" \in classList(e) THEN e
    ELSE IF firstElementChild(e) = null THEN null
    ELSE firstAnimated(firstElementChild(e))

\* how often the observer dispatched the containers of the set
RECURSIVE dispatchesOf(_)
dispatchesOf(cs) ==
    IF cs = {} THEN 0
    ELSE LET c == CHOOSE c \in cs : TRUE
         IN dispatched[c] + dispatchesOf(cs \ {c})

\* C18: one dispatch of a container starts at most one element, the first
\* animated element on the chain of first children from the container: no
\* element below it, no sibling that is not a first child, and nothing when
\* the chain ends at an element that is not animated and has no child
\* element, text or not.
C18_FirstAnimatedOnly ==
    \A x \in Elements :
        (started(x) \/ invocationsOf(x) # {}) =>
            LET n == dispatchesOf({c \in Elements : firstAnimated(c) = x})
            IN /\ n > 0
               /\ Cardinality(invocationsOf(x)) <= n
               /\ count(rafQueue, x) <= n

\* P and F were dispatched: of P's chain only Q runs, nothing of F
C18_Witness ==
    /\ dispatched["P"] = 1
    /\ dispatched["F"] = 1
    /\ rafQueue = <<>>
    /\ \A e \in Elements :
           animationPlayState[e] = "running" <=> e = "Q"

\* C19: an entry that is not intersecting neither dispatches nor unobserves
\* its container; a container stays observed until its first intersecting
\* entry and is dispatched and unobserved in the step that delivers it, so
\* a container is either observed and never dispatched, or unobserved and
\* dispatched exactly once.
C19_ObservedUntilDispatchedOnce ==
    setupRan =>
        \A c \in querySelectorAll(page, "animation_container") :
            \/ c \in observationTargets /\ dispatched[c] = 0
            \/ c \notin observationTargets /\ dispatched[c] = 1

\* the runs of the wrapped callback that belong to the k-th call
runsOf(k) == {j \in DOMAIN runs : runs[j].call = k}

\* at most one timer is pending, and a run comes only when the full delay
\* has elapsed since the most recent call, with the arguments of that call
C20_OneTimerFullDelay ==
    /\ Cardinality(timers) <= 1
    /\ \A j \in DOMAIN runs :
           /\ runs[j].call = runs[j].last
           /\ runs[j].time >= calls[runs[j].call].time + Delay
           /\ runs[j].args = calls[runs[j].call].args

\* C20 as stated: every call cancels the pending timer and starts a new
\* one, at most one timer is pending, the callback runs only when the full
\* delay has elapsed since the most recent call, and it runs exactly once
\* per burst of calls spaced closer than the delay, with the arguments of
\* the last call of the burst: a call followed by the next one after more
\* than the delay ends a burst and has one run, a call followed by the next
\* one within less than the delay has none (a gap of just the delay is left
\* open).
C20_OncePerBurst ==
    /\ C20_OneTimerFullDelay
    /\ \A k \in DOMAIN calls :
           /\ Cardinality(runsOf(k)) <= 1
           /\ k < Len(calls) =>
                  /\ calls[k + 1].time - calls[k].time > Delay
                         => Cardinality(runsOf(k)) = 1
                  /\ calls[k + 1].time - calls[k].time < Delay
                         => Cardinality(runsOf(k)) = 0

\* a call either has had its run, or was cancelled by the next call, made
\* while its timer was pending, or still has its timer pending
C20_RunOrCancelledOrPending ==
    /\ C20_OneTimerFullDelay
    /\ \A k \in DOMAIN calls :
           /\ Cardinality(runsOf(k)) <= 1
           /\ k < Len(calls) =>
                  \A t \in timers : t.id # k
           /\ k = Len(calls) =>
                  (runsOf(k) = {} <=>
                      timers = {[id |-> k, due |-> calls[k].time + Delay,
                                 args |-> calls[k].args]})

\* C20, amended: every call cancels the pending timer and starts a new one
\* and at most one timer is pending; the callback runs only when the full
\* delay has elapsed since the most recent call, with the arguments of that
\* call; it runs exactly once per sequence of calls each made while the
\* timer of the one before was pending: the last call's timer runs in the
\* end unless a further call cancels it.
C20_OncePerPendingSequence ==
    /\ []C20_RunOrCancelledOrPending
    /\ \A k \in 1..MaxCalls :
           (Len(calls) = k) ~> (Len(calls) > k \/ runsOf(k) # {})

\* a call came when more than the delay had elapsed since the call before
\* and that call's timer had not run: the one run that followed has the
\* arguments of the later call
C20_Witness ==
    /\ Len(calls) = 2
    /\ calls[2].time - calls[1].time > Delay
    /\ calls[1].args # calls[2].args
    /\ Len(runs) = 1
    /\ runs[1].call = 2
    /\ runs[1].args = calls[2].args

====
